---- MODULE Spec2Model ----
(***************************************************************************)
(* Falling shapes: the Game class of src/main.js as a state machine.       *)
(*                                                                         *)
(* State: the Game instance's fields (width, height, gravity,              *)
(* spawnPerSecond, shapes, _lastSpawn), the four DOM text elements, the    *)
(* PIXI stage's children and the destroy() calls each Graphics received,   *)
(* the ticker, and the wall clock read by performance.now().               *)
(*                                                                         *)
(* Numbers.  Positions, sizes and times are JavaScript doubles; the model  *)
(* keeps the values it draws integral so that every expression of the      *)
(* code is computed exactly.  A Math.random() draw is a rational           *)
(* <<num, den>> in [0, 1).  Areas are kept in hundredths of a square unit  *)
(* (fixed point), the irrational factors of _estimateArea rounded to four  *)
(* decimals.  Times are in milliseconds.                                   *)
(***************************************************************************)
EXTENDS Integers, Sequences, FiniteSets, TLC

VARIABLES
  width,          \* this.width
  height,         \* this.height
  gravity,        \* this.gravity
  spawnPerSecond, \* this.spawnPerSecond
  shapes,         \* this.shapes: sequence of Graphics records
  lastSpawn,      \* this._lastSpawn (ms)
  now,            \* the latest reading of performance.now() (ms)
  shapesCountEl,  \* #shapes-count textContent
  shapesAreaEl,   \* #shapes-area textContent
  spawnRateEl,    \* #spawn-rate textContent
  gravityValEl,   \* #gravity-val textContent
  stage,          \* ids of the Graphics that are children of app.stage
  destroyCalls,   \* id -> number of destroy() calls the Graphics received
  nextId,         \* identity of the next Graphics object constructed
  hidden,         \* document.hidden
  tickerStarted,  \* app.ticker.started
  lastOp,         \* history: the handler that ran last and what it did
  call            \* the geometry function applied last: arguments, result

vars == <<width, height, gravity, spawnPerSecond, shapes, lastSpawn, now,
          shapesCountEl, shapesAreaEl, spawnRateEl, gravityValEl,
          stage, destroyCalls, nextId, hidden, tickerStarted, lastOp,
          call>>

\* the Game instance, the DOM and the renderer: all but the geometry call
game == <<width, height, gravity, spawnPerSecond, shapes, lastSpawn, now,
          shapesCountEl, shapesAreaEl, spawnRateEl, gravityValEl,
          stage, destroyCalls, nextId, hidden, tickerStarted, lastOp>>

----------------------------------------------------------------------------
(* Program constants *)

MIN_SIZE == 20
MAX_SIZE == 50
GRAVITY_STEP == 1
SPAWN_STEP == 1
\* _update: 1000 / (this.spawnPerSecond || 1)
MsPerSecond == 1000
\* _update: this._spawnShape(Math.random() * this.width, -50)
SpawnY == -50
\* _update: shape.y > this.height + 100
CullMargin == 100
\* new Game({ gravity: 1, spawnPerSecond: 1 })
InitialGravity == 1
InitialSpawnPerSecond == 1

----------------------------------------------------------------------------
(* Bounds of the model *)

\* Graphics objects constructed in one run
MaxIds == 2
\* the increase buttons are disabled at these values
MaxGravity == 2
MaxSpawnRate == 2
\* the wall clock runs over 0 .. MaxTime * TimeStep ms, read every TimeStep ms
MaxTime == 4
TimeStep == 500

\* destroy() calls one Graphics receives when _removeShape is driven directly
MaxDestroyCalls == 2

\* window.innerWidth x window.innerHeight
WindowSizes == {<<2, 10>>, <<4, 40>>}
\* the ticker's frame delta
Deltas == {80, 160}
\* Math.random() draws, as <<num, den>> = num / den
XDraws == {<<0, 1>>, <<1, 2>>}
SizeDraws == {<<1, 3>>}
TypeDraws == {<<1, 5>>}
IrregularDraws == {<<1, 10>>, <<1, 2>>}
\* pointer positions of a stage click, clipped to the stage's hit area
ClickXs == {1}
ClickYs == {9}

Ids == 1 .. MaxIds

----------------------------------------------------------------------------
(* Arithmetic helpers *)

Abs(n) == IF n < 0 THEN -n ELSE n

\* Math.max(a, b)
MathMax(a, b) == IF a >= b THEN a ELSE b

\* a || b on numbers: b when a is falsy (0), else a
JsOr(a, b) == IF a = 0 THEN b ELSE a

\* Math.floor(u * n) for a draw u = <<num, den>>
FloorMul(u, n) == (u[1] * n) \div u[2]

\* Math.round(a / 100) of a value a >= 0 in hundredths (half rounds up)
RoundHundredths(a) == (a + 50) \div 100

\* a reduce that keeps the last shape's area instead of adding it
SumAreasLast(s) == IF s = <<>> THEN 0 ELSE s[Len(s)].area

RECURSIVE SumAreas(_)
\* this.shapes.reduce((sum, s) => sum + (s._area || 0), 0)
SumAreas(s) ==
  IF s = <<>> THEN 0 ELSE JsOr(Head(s).area, 0) + SumAreas(Tail(s))

----------------------------------------------------------------------------
(* ShapeFactory: _createRandomShape, _createIrregularShape, areas *)

\* 1000 * Math.cos(2 * PI * i / n) and 1000 * Math.sin(2 * PI * i / n),
\* rounded, for i = 0 .. n (entry i + 1 of row n)
CosMilliTable ==
  3 :> <<1000, -500, -500, 1000>> @@
  4 :> <<1000, 0, -1000, 0, 1000>> @@
  5 :> <<1000, 309, -809, -809, 309, 1000>> @@
  6 :> <<1000, 500, -500, -1000, -500, 500, 1000>> @@
  7 :> <<1000, 623, -223, -901, -901, -223, 623, 1000>> @@
  8 :> <<1000, 707, 0, -707, -1000, -707, 0, 707, 1000>> @@
  9 :> <<1000, 766, 174, -500, -940, -940, -500, 174, 766, 1000>> @@
  10 :> <<1000, 809, 309, -309, -809, -1000, -809, -309, 309, 809, 1000>>

SinMilliTable ==
  3 :> <<0, 866, -866, 0>> @@
  4 :> <<0, 1000, 0, -1000, 0>> @@
  5 :> <<0, 951, 588, -588, -951, 0>> @@
  6 :> <<0, 866, 866, 0, -866, -866, 0>> @@
  7 :> <<0, 782, 975, 434, -434, -975, -782, 0>> @@
  8 :> <<0, 707, 1000, 707, 0, -707, -1000, -707, 0>> @@
  9 :> <<0, 643, 985, 866, 342, -342, -866, -985, -643, 0>> @@
  10 :> <<0, 588, 951, 951, 588, 0, -588, -951, -951, -588, 0>>

CosMilli(n, i) == CosMilliTable[n][i + 1]
SinMilli(n, i) == SinMilliTable[n][i + 1]

\* _estimateArea(type, size), in hundredths; the factor of each case is
\* written as ten-thousandths (sqrt(3)/4 = 0.4330, (5/4)tan(PI/5) = 0.9082,
\* 3*sqrt(3)/2 = 2.5981, PI = 3.1416, (5/2)sin(2*PI/5) = 2.3776)
estimateArea(type, size) ==
  CASE type = 0 -> (4330 * size * size) \div 100
    [] type = 1 -> (10000 * size * size) \div 100
    [] type = 2 -> (9082 * size * size) \div 100
    [] type = 3 -> (25981 * size * size) \div 100
    [] type = 4 -> (31416 * size * size) \div 100
    [] type = 5 -> (31416 * size * size) \div 200
    [] type = 6 -> (23776 * size * size) \div 100
    [] OTHER -> (10000 * size * size) \div 100

\* the kind of Graphics each case of the switch in _createRandomShape draws
KindOfType(type) ==
  CASE type = 0 -> "triangle"
    [] type = 1 -> "square"
    [] type = 2 -> "pentagon"
    [] type = 3 -> "hexagon"
    [] type = 4 -> "circle"
    [] type = 5 -> "ellipse"
    [] type = 6 -> "star"
    [] OTHER -> "empty"

\* MIN_SIZE + Math.random() * (MAX_SIZE - MIN_SIZE) for the draw u
RandomSize(u) == MIN_SIZE + (u[1] * (MAX_SIZE - MIN_SIZE)) \div u[2]

\* _createRandomShape with the draws us (size) and ut (type)
createRandomShape(us, ut) ==
  LET size == RandomSize(us)
      type == FloorMul(ut, 7)
  IN  [kind |-> KindOfType(type), area |-> estimateArea(type, size)]

RECURSIVE ShoelaceSum(_, _)
\* the loop of _polygonArea from index i (0-based, step 2): the sum of
\* x1*y2 - x2*y1 over the vertex pairs, the last pair wrapping around
ShoelaceSum(points, i) ==
  IF i >= Len(points) THEN 0
  ELSE LET n  == Len(points)
           x1 == points[i + 1]
           y1 == points[i + 2]
           x2 == points[((i + 2) % n) + 1]
           y2 == points[((i + 3) % n) + 1]
       IN  (x1 * y2 - x2 * y1) + ShoelaceSum(points, i + 2)

\* the sum without Math.abs
polygonAreaTwiceSigned(points) == ShoelaceSum(points, 0)

\* 2 * _polygonArea(points): Math.abs(area / 2), doubled to stay integral
polygonAreaTwice(points) == Abs(ShoelaceSum(points, 0))

RECURSIVE IrregularPoints(_, _, _, _)
\* the loop of _createIrregularShape from vertex i: vertex i is at radius
\* r = radius * (0.5 + uv) on the ray of angle 2*PI*i/numPoints; coordinates
\* in hundredths
IrregularPoints(numPoints, radius, uv, i) ==
  IF i >= numPoints THEN <<>>
  ELSE LET r == (radius * (uv[2] + 2 * uv[1])) \div (2 * uv[2])
       IN  <<(r * CosMilli(numPoints, i)) \div 10,
             (r * SinMilli(numPoints, i)) \div 10>>
           \o IrregularPoints(numPoints, radius, uv, i + 1)

\* _createIrregularShape with the draws un (vertex count), ur (base radius)
\* and uv (the radius factor, the same draw for every vertex); the area is
\* converted from ten-thousandths (doubled) to hundredths
createIrregularShape(un, ur, uv) ==
  LET numPoints == 5 + FloorMul(un, 5)
      radius    == RandomSize(ur)
      points    == IrregularPoints(numPoints, radius, uv, 0)
  IN  [kind |-> "irregular", area |-> polygonAreaTwice(points) \div 200]

RECURSIVE PolygonLineTos(_, _, _, _)
\* the loop of _drawPolygon from i up to and including last: the points of
\* its lineTo calls, vertex i on the circle of the given radius at angle
\* i * 2*PI/sides; coordinates in hundredths
PolygonLineTos(radius, sides, i, last) ==
  IF i > last THEN <<>>
  ELSE <<<<(radius * CosMilli(sides, i)) \div 10,
           (radius * SinMilli(sides, i)) \div 10>>>>
       \o PolygonLineTos(radius, sides, i + 1, last)

\* a loop that stops one vertex early (i < sides)
drawPolygonShort(radius, sides) ==
  [start  |-> <<<<100 * radius, 0>>>>,
   lineTo |-> PolygonLineTos(radius, sides, 1, sides - 1)]

\* _drawPolygon(g, radius, sides): the path drawn on g, as the point of its
\* moveTo (a sequence of one point) and the points of its lineTo calls
drawPolygon(radius, sides) ==
  [start  |-> <<<<100 * radius, 0>>>>,
   lineTo |-> PolygonLineTos(radius, sides, 1, sides)]

RECURSIVE StarLineTos(_, _, _, _, _)
\* the loop of drawStar from i: vertex i at radius (i even) or radius / 2
\* (i odd), at angle i * PI/points = i * 2*PI/(2*points); coordinates in
\* hundredths
StarLineTos(x, y, points, radius, i) ==
  IF i >= 2 * points THEN <<>>
  ELSE LET r == IF i % 2 = 0 THEN 100 * radius ELSE 50 * radius
       IN  <<<<100 * x + (r * CosMilli(2 * points, i)) \div 1000,
               100 * y + (r * SinMilli(2 * points, i)) \div 1000>>>>
           \o StarLineTos(x, y, points, radius, i + 1)

\* PIXI.Graphics.prototype.drawStar(x, y, points, radius): nothing is drawn
\* when points < 2
drawStar(x, y, points, radius) ==
  IF points < 2 THEN [start |-> <<>>, lineTo |-> <<>>]
  ELSE [start  |-> <<<<100 * (x + radius), 100 * y>>>>,
        lineTo |-> StarLineTos(x, y, points, radius, 0)]

----------------------------------------------------------------------------
(* SimulationLoop: the helpers of the handlers *)

\* a decrease without its floor
ClampZeroNone(v) == v

\* Math.max(0, v) of the decrease buttons
ClampZero(v) == MathMax(0, v)

\* an increase that steps twice
StepUpTwice(v, step) == v + 2 * step

\* this.spawnPerSecond += SPAWN_STEP / this.gravity += GRAVITY_STEP
StepUp(v, step) == v + step

\* Math.max(0, this.x - STEP)
StepDown(v, step) == ClampZero(v - step)

\* the interval test with > for >=
IntervalReachedStrict(elapsed, rate) == elapsed * JsOr(rate, 1) > MsPerSecond

\* now - this._lastSpawn >= 1000 / (this.spawnPerSecond || 1), the division
\* cleared: the divisor is a positive integer
IntervalReached(elapsed, rate) == elapsed * JsOr(rate, 1) >= MsPerSecond

\* the timer spawn without its rate guard
TimerSpawnsAlways(rate) == rate >= 0

\* if (this.spawnPerSecond > 0) this._spawnShape(...)
TimerSpawns(rate) == rate > 0

\* allowIrregular && Math.random() < 0.3, for the draw u
\* a choice between the two factories that ignores allowIrregular
PicksIrregularAny(allowIrregular, u) == 10 * u[1] < 3 * u[2]

PicksIrregular(allowIrregular, u) == allowIrregular /\ 10 * u[1] < 3 * u[2]

\* Math.random() * this.width for the draw u
RandomX(u, w) == (u[1] * w) \div u[2]

\* _spawnShape(x, y, allowIrregular): the Graphics it constructs, positions
\* and pushes; d holds the Math.random() draws; origin records the caller
spawnShape(id, x, y, allowIrregular, d, origin) ==
  LET g == IF PicksIrregular(allowIrregular, d.irregular)
           THEN createIrregularShape(d.count, d.size, d.vertex)
           ELSE createRandomShape(d.size, d.type)
  IN  [id |-> id, x |-> x, y |-> y, kind |-> g.kind, area |-> g.area,
       origin |-> origin]

\* the draws of one _spawnShape call
Draws ==
  [irregular : IrregularDraws, size : SizeDraws, type : TypeDraws,
   count : {<<1, 5>>}, vertex : {<<1, 2>>}]

\* shape.y += this.gravity * delta
\* a tick that moves nothing
FallNever(y, g, delta) == y

\* a move by gravity alone, without the frame's delta
FallNoDelta(y, g, delta) == y + g

Fall(y, g, delta) == y + g * delta

\* this.shapes.forEach(shape => shape.y += this.gravity * delta)
ApplyGravity(s, g, delta) ==
  [i \in 1 .. Len(s) |-> [s[i] EXCEPT !.y = Fall(s[i].y, g, delta)]]

\* the cull test with the margin doubled
\* a filter that also drops a shape exactly on the margin
OffScreenInclusive(y, h) == y >= h + CullMargin

OffScreenLate(y, h) == y > h + 2 * CullMargin

\* shape.y > this.height + 100
OffScreen(y, h) == y > h + CullMargin

\* this.shapes.filter(...): the shapes kept, in order
KeepOnScreen(s, h) == SelectSeq(s, LAMBDA g : ~OffScreen(g.y, h))

\* the ids of the shapes the filter destroys
\* a filter that drops the shapes without destroying them
CulledIdsNone(s, h) == {}

CulledIds(s, h) == {s[i].id : i \in {j \in 1 .. Len(s) : OffScreen(s[j].y, h)}}

\* this.shapes.indexOf(shape): 0-based, -1 when absent
IndexOf(s, id) ==
  IF \E i \in 1 .. Len(s) : s[i].id = id
  THEN (CHOOSE i \in 1 .. Len(s) :
          s[i].id = id /\ \A j \in 1 .. i - 1 : s[j].id # id) - 1
  ELSE -1

\* this.shapes.splice(idx, 1)
Splice(s, idx) == SubSeq(s, 1, idx) \o SubSeq(s, idx + 2, Len(s))

\* _removeShape without the idx !== -1 guard: splice(-1, 1) removes the last
\* element of the array
removeShapeUnguarded(s, id) ==
  LET idx == IndexOf(s, id)
  IN  IF idx # -1 THEN Splice(s, idx) ELSE SubSeq(s, 1, Len(s) - 1)

\* _removeShape(shape) on the array: idx !== -1 guards the splice
removeShape(s, id) ==
  LET idx == IndexOf(s, id) IN IF idx # -1 THEN Splice(s, idx) ELSE s

\* shape.destroy() for every id in ids: off the stage, one more destroy call
DestroyAll(calls, ids) ==
  [i \in DOMAIN calls |-> IF i \in ids THEN calls[i] + 1 ELSE calls[i]]

\* _updateStats: the two texts published for the array s
StatsCount(s) == Len(s)
StatsArea(s) == RoundHundredths(SumAreas(s))

\* the stage's listener without its target test
StageListenerAlways(target) == TRUE

\* the stage's listener gated by the spawn rate, like the timer
StageListenerRated(target) == target = 0 /\ spawnPerSecond > 0

\* the stage's pointerdown listener: e.target === this.app.stage
\* (target 0 is the stage, any other target is the id of a shape)
StageListenerSpawns(target) == target = 0

\* a reset that forgets to clear the array
ResetShapesKeep(s) == s

\* _resetGame: this.shapes = []
ResetShapes(s) == <<>>

\* a reset of the spawn clock to the latest clock reading
ResetLastSpawnNow == now

\* _resetGame: this._lastSpawn = 0
ResetLastSpawn == 0

IdsOf(s) == {s[i].id : i \in 1 .. Len(s)}

\* no geometry function has been applied yet
NoCall == [fn |-> "none"]

----------------------------------------------------------------------------
(* The state after new Game({gravity: 1, spawnPerSecond: 1}) and mount():  *)
(* the constructor's fields, _setupControls' first _updateControls, and    *)
(* _resize's _resetGame.  The ticker of a PIXI.Application starts itself.  *)

\* lastOp: the handler's name, one number of what it saw (the shapes alive
\* before a resize, the old value of the setting a button changed, the id of
\* the shape clicked) and the pointer position of a stage click; for a tick
\* also the number of shapes it culled and, when the handler before it was
\* a resize or a visibilitychange, that handler's name (prev) and the
\* wall-clock time since the tick before (arg)
Op(name, arg, at) ==
  [op |-> name, arg |-> arg, at |-> at, prev |-> "", culled |-> 0]

TickOp(gap, culled) ==
  LET prev == IF lastOp.op \in {"resize", "visibilitychange"}
              THEN lastOp.op ELSE ""
  IN  [op |-> "tick", arg |-> IF prev = "" THEN 0 ELSE gap, at |-> <<0, 0>>,
       prev |-> prev, culled |-> culled]

Init ==
  /\ \E wh \in WindowSizes : width = wh[1] /\ height = wh[2]
  /\ gravity = InitialGravity
  /\ spawnPerSecond = InitialSpawnPerSecond
  /\ shapes = <<>>
  /\ now = 0
  /\ lastSpawn = ResetLastSpawn
  /\ shapesCountEl = StatsCount(<<>>)
  /\ shapesAreaEl = StatsArea(<<>>)
  /\ spawnRateEl = InitialSpawnPerSecond
  /\ gravityValEl = InitialGravity
  /\ stage = {}
  /\ destroyCalls = [i \in Ids |-> 0]
  /\ nextId = 1
  /\ hidden = FALSE
  /\ tickerStarted = TRUE
  /\ lastOp = Op("mount", 0, <<0, 0>>)
  /\ call = NoCall

----------------------------------------------------------------------------
(* The handlers *)

\* _update(delta) with performance.now() = t, gap ms after the tick before
Update(t, gap, delta, ux, d) ==
  LET due     == IntervalReached(t - lastSpawn, spawnPerSecond)
      doSpawn == due /\ TimerSpawns(spawnPerSecond)
      g       == spawnShape(nextId, RandomX(ux, width), SpawnY, FALSE, d,
                            "timer")
      spawned == IF doSpawn THEN Append(shapes, g) ELSE shapes
      fallen  == ApplyGravity(spawned, gravity, delta)
      kept    == KeepOnScreen(fallen, height)
      culled  == CulledIds(fallen, height)
  IN  /\ doSpawn => nextId <= MaxIds
      /\ now' = t
      /\ lastSpawn' = IF due THEN t ELSE lastSpawn
      /\ nextId' = IF doSpawn THEN nextId + 1 ELSE nextId
      /\ shapes' = kept
      /\ stage' = (IF doSpawn THEN stage \cup {nextId} ELSE stage) \ culled
      /\ destroyCalls' = DestroyAll(destroyCalls, culled)
      /\ shapesCountEl' = StatsCount(kept)
      /\ shapesAreaEl' = StatsArea(kept)
      /\ lastOp' = TickOp(gap, Cardinality(culled))
      /\ call' = call
      /\ UNCHANGED <<width, height, gravity, spawnPerSecond, spawnRateEl,
                     gravityValEl, hidden, tickerStarted>>

\* the ticker, while started, runs _update at wall-clock time
\* now + k * TimeStep
Tick(k, delta, ux, d) ==
  /\ tickerStarted
  /\ now + k * TimeStep <= MaxTime * TimeStep
  /\ Update(now + k * TimeStep, k * TimeStep, delta, ux, d)

\* a pointerdown whose target is `target` (0: the stage, else a shape's id)
\* at (x, y): the shape's own listener runs _removeShape, then the event
\* reaches the stage's listener, which spawns when the target is the stage
PointerDown(target, x, y, d) ==
  LET removed == IF target # 0 THEN removeShape(shapes, target) ELSE shapes
      gone    == IF target # 0 THEN {target} ELSE {}
      spawns  == StageListenerSpawns(target)
      g       == spawnShape(nextId, x, y, TRUE, d, "click")
  IN  /\ shapes' = IF spawns THEN Append(removed, g) ELSE removed
      /\ stage' = (stage \ gone) \cup (IF spawns THEN {nextId} ELSE {})
      /\ destroyCalls' = DestroyAll(destroyCalls, gone)
      /\ nextId' = IF spawns THEN nextId + 1 ELSE nextId
      /\ lastOp' = (IF target = 0 THEN Op("clickStage", 0, <<x, y>>)
                                  ELSE Op("clickShape", target, <<0, 0>>))
      /\ call' = call
      /\ UNCHANGED <<width, height, gravity, spawnPerSecond, lastSpawn, now,
                     shapesCountEl, shapesAreaEl, spawnRateEl, gravityValEl,
                     hidden, tickerStarted>>

\* a click on the stage background, inside the stage's hit area
ClickStage(x, y, d) ==
  /\ 0 <= x /\ x < width
  /\ 0 <= y /\ y < height
  /\ nextId <= MaxIds
  /\ PointerDown(0, x, y, d)

\* a click on a shape that is on the stage
ClickShape(i, d) ==
  /\ i \in 1 .. Len(shapes)
  /\ shapes[i].id \in stage
  /\ PointerDown(shapes[i].id, shapes[i].x, shapes[i].y, d)

\* _resize() on a window resize to w x h, with its _resetGame()
Resize(w, h) ==
  /\ width' = w
  /\ height' = h
  /\ shapes' = ResetShapes(shapes)
  /\ stage' = stage \ IdsOf(shapes)
  /\ destroyCalls' = DestroyAll(destroyCalls, IdsOf(shapes))
  /\ lastSpawn' = ResetLastSpawn
  /\ shapesCountEl' = StatsCount(shapes')
  /\ shapesAreaEl' = StatsArea(shapes')
  /\ lastOp' = Op("resize", Len(shapes), <<0, 0>>)
  /\ call' = call
  /\ UNCHANGED <<gravity, spawnPerSecond, now, spawnRateEl, gravityValEl,
                 nextId, hidden, tickerStarted>>

\* _updateControls after a button set the two settings to s and g
Controls(name, s, g) ==
  /\ spawnPerSecond' = s
  /\ gravity' = g
  /\ spawnRateEl' = s
  /\ gravityValEl' = g
  /\ lastOp' = Op(name, IF name \in {"spawnInc", "spawnDec"}
                            THEN spawnPerSecond ELSE gravity, <<0, 0>>)
  /\ call' = call
  /\ UNCHANGED <<width, height, shapes, lastSpawn, now, shapesCountEl,
                 shapesAreaEl, stage, destroyCalls, nextId, hidden,
                 tickerStarted>>

\* #spawn-inc
SpawnInc ==
  /\ StepUp(spawnPerSecond, SPAWN_STEP) <= MaxSpawnRate
  /\ Controls("spawnInc", StepUp(spawnPerSecond, SPAWN_STEP), gravity)

\* #spawn-dec
SpawnDec ==
  Controls("spawnDec", StepDown(spawnPerSecond, SPAWN_STEP), gravity)

\* #grav-inc
GravInc ==
  /\ StepUp(gravity, GRAVITY_STEP) <= MaxGravity
  /\ Controls("gravInc", spawnPerSecond, StepUp(gravity, GRAVITY_STEP))

\* #grav-dec
GravDec ==
  Controls("gravDec", spawnPerSecond, StepDown(gravity, GRAVITY_STEP))

\* a visibilitychange handler that never stops the ticker
TickerStartedAlways(isHidden) == TRUE

\* if (document.hidden) this.app.ticker.stop(); else this.app.ticker.start()
TickerStarted(isHidden) == ~isHidden

\* visibilitychange: the ticker stops when the document is hidden and
\* starts when it is visible again
VisibilityChange ==
  /\ hidden' = ~hidden
  /\ tickerStarted' = TickerStarted(hidden')
  /\ lastOp' = Op("visibilitychange", 0, <<0, 0>>)
  /\ call' = call
  /\ UNCHANGED <<width, height, gravity, spawnPerSecond, shapes, lastSpawn,
                 now, shapesCountEl, shapesAreaEl, spawnRateEl, gravityValEl,
                 stage, destroyCalls, nextId>>

\* _removeShape(shape) called on any Graphics constructed so far, alive or
\* already removed
CallRemoveShape(id) ==
  /\ id < nextId
  /\ destroyCalls[id] < MaxDestroyCalls
  /\ shapes' = removeShape(shapes, id)
  /\ stage' = stage \ {id}
  /\ destroyCalls' = DestroyAll(destroyCalls, {id})
  /\ lastOp' = Op("removeShape", id, <<0, 0>>)
  /\ call' = call
  /\ UNCHANGED <<width, height, gravity, spawnPerSecond, lastSpawn, now,
                 shapesCountEl, shapesAreaEl, spawnRateEl, gravityValEl,
                 nextId, hidden, tickerStarted>>

Next ==
  \/ \E k \in 1 .. MaxTime, delta \in Deltas, ux \in XDraws, d \in Draws :
       Tick(k, delta, ux, d)
  \/ \E x \in ClickXs, y \in ClickYs, d \in Draws : ClickStage(x, y, d)
  \/ \E i \in 1 .. MaxIds, d \in Draws : ClickShape(i, d)
  \/ \E wh \in WindowSizes : Resize(wh[1], wh[2])
  \/ SpawnInc
  \/ SpawnDec
  \/ GravInc
  \/ GravDec
  \/ VisibilityChange

Spec == Init /\ [][Next]_vars

\* _removeShape driven directly: shapes are spawned by stage clicks and timer
\* ticks, removed by culls and resets, and _removeShape is called on any of
\* them, any number of times up to MaxDestroyCalls
NextRemove ==
  \/ \E k \in 1 .. MaxTime, delta \in Deltas, ux \in XDraws, d \in Draws :
       Tick(k, delta, ux, d)
  \/ \E x \in ClickXs, y \in ClickYs, d \in Draws : ClickStage(x, y, d)
  \/ \E wh \in WindowSizes : Resize(wh[1], wh[2])
  \/ \E id \in Ids : CallRemoveShape(id)

SpecRemove == Init /\ [][NextRemove]_vars

----------------------------------------------------------------------------
(* Fair ticking.  While the tab is visible the ticker runs _update on      *)
(* every animation frame, so a tick that stays possible eventually runs.   *)
(* The run starts after one press of #spawn-dec (spawnPerSecond = 0, no    *)
(* timer spawns: shapes come from stage clicks), the tab stays visible,    *)
(* and the clock reading stops at the end of the modelled time span,       *)
(* where ticks go on.                                                      *)

\* new Game(...), mount() and one click on #spawn-dec
InitFall ==
  /\ \E wh \in WindowSizes : width = wh[1] /\ height = wh[2]
  /\ gravity = InitialGravity
  /\ spawnPerSecond = StepDown(InitialSpawnPerSecond, SPAWN_STEP)
  /\ shapes = <<>>
  /\ now = 0
  /\ lastSpawn = ResetLastSpawn
  /\ shapesCountEl = StatsCount(<<>>)
  /\ shapesAreaEl = StatsArea(<<>>)
  /\ spawnRateEl = spawnPerSecond
  /\ gravityValEl = InitialGravity
  /\ stage = {}
  /\ destroyCalls = [i \in Ids |-> 0]
  /\ nextId = 1
  /\ hidden = FALSE
  /\ tickerStarted = TRUE
  /\ lastOp = Op("spawnDec", InitialSpawnPerSecond, <<0, 0>>)
  /\ call = NoCall

\* the ticker runs _update; the clock reading is capped at
\* MaxTime * TimeStep
TickFall(k, delta, ux, d) ==
  /\ tickerStarted
  /\ Update(IF now + k * TimeStep <= MaxTime * TimeStep
            THEN now + k * TimeStep ELSE MaxTime * TimeStep,
            k * TimeStep, delta, ux, d)

FrameTick ==
  \E k \in 1 .. MaxTime, delta \in Deltas, ux \in XDraws, d \in Draws :
    TickFall(k, delta, ux, d)

NextFall ==
  \/ FrameTick
  \/ \E x \in ClickXs, y \in ClickYs, d \in Draws : ClickStage(x, y, d)
  \/ \E i \in 1 .. MaxIds, d \in Draws : ClickShape(i, d)
  \/ \E wh \in WindowSizes : Resize(wh[1], wh[2])
  \/ GravInc
  \/ GravDec

SpecFall == InitFall /\ [][NextFall]_vars /\ WF_vars(FrameTick)

----------------------------------------------------------------------------
(* The geometry functions applied on their own to arguments from bounded   *)
(* sets: they read no field of the game and change none.  A run applies    *)
(* one function once.                                                      *)

\* vertex rings as flat lists x0, y0, x1, y1, ... of up to MaxVertices
\* vertices with coordinates in RingCoords
MaxVertices == 4
RingCoords == {-1, 0, 2}
Rings == UNION {[1 .. 2 * n -> RingCoords] : n \in 0 .. MaxVertices}

\* sizes in [MIN_SIZE, MAX_SIZE), side counts of the four polygon cases,
\* point counts and centers of a star
Sizes == {MIN_SIZE, 30, MAX_SIZE - 1}
SideCounts == 3 .. 6
StarPointCounts == 0 .. 5
StarCenters == {0, 3}

\* this._polygonArea(points)
CallPolygonArea(points) ==
  /\ call' = [fn |-> "polygonArea", points |-> points,
               twice |-> polygonAreaTwice(points)]
  /\ UNCHANGED game

\* this._drawPolygon(g, size, sides) on a new Graphics
CallDrawPolygon(size, sides) ==
  /\ call' = [fn |-> "drawPolygon", size |-> size, sides |-> sides,
               path |-> drawPolygon(size, sides)]
  /\ UNCHANGED game

\* g.drawStar(x, y, points, radius) on a new Graphics
CallDrawStar(x, y, points, radius) ==
  /\ call' = [fn |-> "drawStar", x |-> x, y |-> y, points |-> points,
               radius |-> radius, path |-> drawStar(x, y, points, radius)]
  /\ UNCHANGED game

\* one application, while none has been made
NextGeometry ==
  \/ /\ call = NoCall
     /\ \E points \in Rings : CallPolygonArea(points)
  \/ /\ call = NoCall
     /\ \E size \in Sizes : \E sides \in SideCounts :
          CallDrawPolygon(size, sides)
  \/ /\ call = NoCall
     /\ \E x, y \in StarCenters : \E points \in StarPointCounts :
          \E radius \in Sizes : CallDrawStar(x, y, points, radius)

SpecGeometry == Init /\ [][NextGeometry]_vars

----------------------------------------------------------------------------
(* Claims *)

ControlOps == {"spawnInc", "spawnDec", "gravInc", "gravDec"}

\* max(0, v), written out
FloorZero(v) == IF v > 0 THEN v ELSE 0

\* C1: in every state between two handlers (so at the start and at the end
\* of every tick) every shape of the collection has y <= height + 100.
C1_ShapesWithinCullMargin ==
  \A i \in 1 .. Len(shapes) : shapes[i].y <= height + CullMargin

\* a tick ended with a shape exactly on the margin, which it kept
C1_Witness ==
  /\ lastOp.op = "tick"
  /\ \E i \in 1 .. Len(shapes) : shapes[i].y = height + CullMargin

\* C2: a click on a live shape removes exactly that shape: the collection
\* is the old one without it (one shape fewer, the others in place with
\* their fields unchanged) and no Graphics is constructed, so nothing spawns.
C2_ClickRemovesExactlyThatShape ==
  [][lastOp'.op = "clickShape" =>
       LET id == lastOp'.arg
       IN  /\ id \in IdsOf(shapes)
           /\ Len(shapes') = Len(shapes) - 1
           /\ shapes' = SelectSeq(shapes, LAMBDA g : g.id # id)
           /\ nextId' = nextId
           /\ stage' = stage \ {id}]_vars

\* a shape was clicked away while another one stayed
C2_Witness == lastOp.op = "clickShape" /\ Len(shapes) >= 1

\* C3: a click on the stage background spawns exactly one shape at the click
\* position, whatever the spawn clock and spawnPerSecond are: the collection
\* is the old one with the new shape appended, nothing removed or moved.
C3_StageClickSpawnsOne ==
  [][lastOp'.op = "clickStage" =>
       /\ Len(shapes') = Len(shapes) + 1
       /\ SubSeq(shapes', 1, Len(shapes)) = shapes
       /\ shapes'[Len(shapes')].id \notin IdsOf(shapes)
       /\ shapes'[Len(shapes')].x = lastOp'.at[1]
       /\ shapes'[Len(shapes')].y = lastOp'.at[2]
       /\ nextId' = nextId + 1
       /\ lastSpawn' = lastSpawn]_vars

\* a stage click spawned beside an existing shape while spawnPerSecond was 0
\* and the spawn interval had not elapsed
C3_Witness ==
  /\ lastOp.op = "clickStage"
  /\ spawnPerSecond = 0
  /\ Len(shapes) >= 2
  /\ now - lastSpawn < MsPerSecond

\* C4: after a reset (every resize runs one) the collection is empty and the
\* published count and total area are 0.
C4_ResetEmptiesEverything ==
  lastOp.op = "resize" =>
    /\ shapes = <<>>
    /\ shapesCountEl = 0
    /\ shapesAreaEl = 0

\* a reset of two live shapes, with gravity and spawn rate off their defaults
C4_Witness ==
  /\ lastOp.op = "resize"
  /\ lastOp.arg >= 2
  /\ gravity # InitialGravity
  /\ spawnPerSecond # InitialSpawnPerSecond

\* C5: gravity >= 0 and spawnPerSecond >= 0 in every reachable state.
C5_SettingsNeverNegative == gravity >= 0 /\ spawnPerSecond >= 0

\* the spawn rate was decreased at 0, gravity being 0 as well
C5_Witness ==
  /\ lastOp.op = "spawnDec"
  /\ lastOp.arg = 0
  /\ gravity = 0

\* C6: the four control actions: an increase stores old + 1, a decrease
\* stores max(0, old - 1); each leaves the other setting, the collection and
\* the spawn clock alone, and nothing else changes a setting.
C6_ControlActions ==
  [][/\ lastOp'.op = "spawnInc" =>
          spawnPerSecond' = spawnPerSecond + 1 /\ gravity' = gravity
     /\ lastOp'.op = "spawnDec" =>
          spawnPerSecond' = FloorZero(spawnPerSecond - 1) /\ gravity' = gravity
     /\ lastOp'.op = "gravInc" =>
          gravity' = gravity + 1 /\ spawnPerSecond' = spawnPerSecond
     /\ lastOp'.op = "gravDec" =>
          gravity' = FloorZero(gravity - 1) /\ spawnPerSecond' = spawnPerSecond
     /\ lastOp'.op \in ControlOps =>
          shapes' = shapes /\ lastSpawn' = lastSpawn /\ stage' = stage
     /\ (gravity' # gravity \/ spawnPerSecond' # spawnPerSecond) =>
          lastOp'.op \in ControlOps]_vars

\* gravity was raised above its default with a shape alive
C6_Witness ==
  /\ lastOp.op = "gravInc"
  /\ gravity > InitialGravity
  /\ Len(shapes) >= 1

\* the values a caller could hand to a setter
SetterValues == -5 .. MaxGravity

\* C7 as claimed: setGravity(v) stores max(v, 0) for an arbitrary v, that
\* is, in every state and for every v the program has a step that stores
\* max(v, 0) as the gravity.
C7_SetterStoresAnyValue ==
  \A v \in SetterValues : ENABLED (Next /\ gravity' = FloorZero(v))

\* C7 as amended: the settings are set only by steps of one from the old
\* value: every step stores the old value, max(old + 1, 0) or
\* max(old - 1, 0), and a decrease stores max(v, 0) for v = old - 1.
C7_StepSetterClamps ==
  [][/\ gravity' \in {gravity, FloorZero(gravity + GRAVITY_STEP),
                      FloorZero(gravity - GRAVITY_STEP)}
     /\ spawnPerSecond' \in {spawnPerSecond,
                             FloorZero(spawnPerSecond + SPAWN_STEP),
                             FloorZero(spawnPerSecond - SPAWN_STEP)}
     /\ lastOp'.op = "gravDec" =>
          gravity' = FloorZero(lastOp'.arg - GRAVITY_STEP)
     /\ lastOp'.op = "spawnDec" =>
          spawnPerSecond' = FloorZero(lastOp'.arg - SPAWN_STEP)]_vars

\* gravity was decreased at 0 (the value asked for is -1) and 0 was stored
C7_Witness ==
  /\ lastOp.op = "gravDec"
  /\ lastOp.arg = 0
  /\ gravity = 0

\* C8: _removeShape on a shape that is not in the collection leaves the
\* collection as it is, and after any _removeShape(s) a second
\* _removeShape(s) changes nothing; no call touches the settings, the spawn
\* clock or the published stats.
C8_RemoveShapeIdempotent ==
  [][lastOp'.op = "removeShape" =>
       LET id == lastOp'.arg
       IN  /\ id \notin IdsOf(shapes) => shapes' = shapes
           /\ id \notin IdsOf(shapes')
           /\ removeShape(shapes', id) = shapes'
           /\ \A i \in 1 .. Len(shapes') :
                \E j \in 1 .. Len(shapes) : shapes'[i] = shapes[j]
           /\ UNCHANGED <<gravity, spawnPerSecond, lastSpawn, width, height,
                          shapesCountEl, shapesAreaEl>>]_vars

\* _removeShape ran a second time on a removed shape, another shape alive
C8_Witness ==
  /\ lastOp.op = "removeShape"
  /\ destroyCalls[lastOp.arg] >= 2
  /\ Len(shapes) >= 1

\* C9: while spawnPerSecond is 0 a tick constructs no shape and adds none;
\* it sets the spawn clock to the current time exactly when at least
\* 1000 ms have elapsed since the clock's value; the collection grows only
\* by a stage click.
C9_NoTimerSpawnAtRateZero ==
  [][spawnPerSecond = 0 =>
       /\ lastOp'.op = "tick" =>
            /\ nextId' = nextId
            /\ IdsOf(shapes') \subseteq IdsOf(shapes)
            /\ lastSpawn' = IF now' - lastSpawn >= MsPerSecond
                            THEN now' ELSE lastSpawn
       /\ Len(shapes') > Len(shapes) => lastOp'.op = "clickStage"]_vars

\* a tick at rate 0 reset the spawn clock and spawned nothing, the
\* collection holding a clicked shape only
C9_Witness ==
  /\ lastOp.op = "tick"
  /\ spawnPerSecond = 0
  /\ lastSpawn = now
  /\ Len(shapes) = 1
  /\ shapes[1].origin = "click"

\* max(spawnPerSecond, 1)
RateOrOne(rate) == IF rate > 1 THEN rate ELSE 1

\* C10: a tick constructs a shape iff spawnPerSecond > 0 and the time since
\* the spawn clock's value is at least 1000 / max(spawnPerSecond, 1) ms; then
\* it constructs exactly one, by the timer, at x in [0, width) and y = -50
\* (moved by this tick's gravity * delta), and sets the spawn clock to the
\* current time.  The divisor the code uses is max(spawnPerSecond, 1).
C10_TimerSpawn ==
  [][lastOp'.op = "tick" =>
       LET elapsed == now' - lastSpawn
           due     == elapsed * RateOrOne(spawnPerSecond) >= MsPerSecond
           spawns  == spawnPerSecond > 0 /\ due
       IN  /\ JsOr(spawnPerSecond, 1) = RateOrOne(spawnPerSecond)
           /\ nextId' = IF spawns THEN nextId + 1 ELSE nextId
           /\ IdsOf(shapes') \subseteq
                IdsOf(shapes) \cup (IF spawns THEN {nextId} ELSE {})
           /\ lastSpawn' = IF due THEN now' ELSE lastSpawn
           /\ \A i \in 1 .. Len(shapes') :
                shapes'[i].id = nextId =>
                  /\ shapes'[i].origin = "timer"
                  /\ 0 <= shapes'[i].x /\ shapes'[i].x < width
                  /\ \E delta \in Deltas :
                       shapes'[i].y = SpawnY + gravity * delta]_vars

\* a tick at rate 2, exactly 500 ms after the last spawn, spawned a second
\* shape
C10_Witness ==
  /\ lastOp.op = "tick"
  /\ spawnPerSecond = 2
  /\ lastSpawn = now
  /\ Len(shapes) = 2
  /\ shapes[2].id = nextId - 1
  /\ shapes[2].origin = "timer"
  /\ shapes[1].origin = "timer"

\* C11: every irregular shape of the collection was spawned by a stage click:
\* the tick calls _spawnShape without allowIrregular, so a timer spawn is
\* always made by _createRandomShape (regular polygon, circle, ellipse or
\* star).
C11_IrregularOnlyFromClicks ==
  \A i \in 1 .. Len(shapes) :
    /\ shapes[i].kind = "irregular" => shapes[i].origin = "click"
    /\ shapes[i].origin = "timer" =>
         shapes[i].kind \in {"triangle", "square", "pentagon", "hexagon",
                             "circle", "ellipse", "star"}

\* an irregular shape from a stage click next to a shape from the timer
C11_Witness ==
  /\ Len(shapes) = 2
  /\ \E i, j \in 1 .. 2 :
       /\ shapes[i].kind = "irregular" /\ shapes[i].origin = "click"
       /\ shapes[j].origin = "timer" /\ shapes[j].kind # "irregular"

\* C12: while the tab is hidden no tick runs: the clock reading, every
\* shape's y and the spawn clock stay as they are, nothing is timer-spawned
\* and nothing is culled (a shape can leave only by a click or a reset).
\* The ticker runs exactly when the tab is visible.  A tick, and so the
\* first one after resuming, spawns at most one shape and moves every shape
\* by one gravity * delta, however much time has passed since the tick
\* before.
C12_HiddenTabPauses ==
  [][/\ tickerStarted = ~hidden
     /\ hidden =>
          /\ lastOp'.op # "tick"
          /\ now' = now
          /\ lastSpawn' \in {lastSpawn, ResetLastSpawn}
          /\ \A i \in 1 .. Len(shapes) : \A j \in 1 .. Len(shapes') :
               shapes'[j].id = shapes[i].id => shapes'[j].y = shapes[i].y
          /\ \A j \in 1 .. Len(shapes') :
               shapes'[j].id \notin IdsOf(shapes) =>
                 shapes'[j].origin = "click"
          /\ IdsOf(shapes) \ IdsOf(shapes') # {} =>
               lastOp'.op \in {"clickShape", "resize"}
     /\ lastOp'.op = "tick" =>
          /\ ~hidden
          /\ nextId' <= nextId + 1
          /\ Cardinality(IdsOf(shapes') \ IdsOf(shapes)) <= 1
          /\ \E delta \in Deltas :
               \A i \in 1 .. Len(shapes) : \A j \in 1 .. Len(shapes') :
                 shapes'[j].id = shapes[i].id =>
                   shapes'[j].y = shapes[i].y + gravity * delta]_vars

\* the first tick after the tab became visible again, at least three spawn
\* intervals after the tick before it: one shape spawned, the older one
\* still in the collection
C12_Witness ==
  /\ lastOp.op = "tick"
  /\ lastOp.prev = "visibilitychange"
  /\ spawnPerSecond = 2
  /\ lastOp.arg >= 3 * (MsPerSecond \div 2)
  /\ Len(shapes) = 2
  /\ shapes[2].id = nextId - 1
  /\ shapes[2].origin = "timer"
  /\ lastSpawn = now

\* C13: a shape enters the collection once, as a new instance, and leaves it
\* once: by a click on it, by the culling at the end of a tick in which its
\* y came to exceed height + 100, or by a reset.  A shape that left (it is
\* destroyed then) is never in the collection again.
C13_ShapeLifecycle ==
  [][/\ \A id \in IdsOf(shapes) : id < nextId /\ destroyCalls[id] = 0
     /\ \A id \in Ids : destroyCalls'[id] >= destroyCalls[id]
     /\ nextId' >= nextId
     /\ \A id \in IdsOf(shapes') \ IdsOf(shapes) :
          /\ id = nextId
          /\ nextId' = nextId + 1
          /\ destroyCalls[id] = 0
          /\ lastOp'.op \in {"tick", "clickStage"}
     /\ \A i \in 1 .. Len(shapes) :
          shapes[i].id \notin IdsOf(shapes') =>
            /\ destroyCalls'[shapes[i].id] >= 1
            /\ \/ lastOp'.op = "clickShape" /\ lastOp'.arg = shapes[i].id
               \/ lastOp'.op = "resize"
               \/ /\ lastOp'.op = "tick"
                  /\ \E delta \in Deltas :
                       shapes[i].y + gravity * delta > height + CullMargin]_vars

\* a tick culled one shape and kept the other; the culled instance is
\* destroyed and outside the collection
C13_Witness ==
  /\ lastOp.op = "tick"
  /\ lastOp.culled = 1
  /\ Len(shapes) = 1
  /\ \E id \in Ids : id < nextId /\ id \notin IdsOf(shapes)
                        /\ destroyCalls[id] = 1

\* C14 as stated: y increases every tick, that is, every shape that is in
\* the collection before and after a tick has a larger y after it.
C14_YIncreasesEveryTick ==
  [][lastOp'.op = "tick" =>
       \A i \in 1 .. Len(shapes) : \A j \in 1 .. Len(shapes') :
         shapes'[j].id = shapes[i].id => shapes'[j].y > shapes[i].y]_vars

\* C14: a shape's x never changes after its spawn.  Its y is changed by the
\* tick alone, which adds the same gravity * delta to every shape, the one
\* it has just spawned at y = -50 included, and culls on the moved y; so y
\* never decreases, and it increases in a tick exactly when gravity > 0.
\* Clicks, resets and the control buttons leave the position of every shape
\* that stays in the collection unchanged.
C14_PositionsChangeOnlyByTick ==
  [][\A j \in 1 .. Len(shapes') :
       /\ \A i \in 1 .. Len(shapes) :
            shapes'[j].id = shapes[i].id =>
              /\ shapes'[j].x = shapes[i].x
              /\ lastOp'.op # "tick" => shapes'[j].y = shapes[i].y
              /\ shapes'[j].y >= shapes[i].y
              /\ lastOp'.op = "tick" =>
                   (shapes'[j].y > shapes[i].y <=> gravity > 0)
       /\ lastOp'.op = "tick" =>
            \E delta \in Deltas :
              /\ \A k \in 1 .. Len(shapes') :
                   \/ \E i \in 1 .. Len(shapes) :
                        /\ shapes'[k].id = shapes[i].id
                        /\ shapes'[k].y = shapes[i].y + gravity * delta
                   \/ /\ shapes'[k].id = nextId
                      /\ shapes'[k].y = SpawnY + gravity * delta
              /\ \A i \in 1 .. Len(shapes) :
                   shapes[i].id \in IdsOf(shapes') <=>
                     shapes[i].y + gravity * delta <= height + CullMargin]_vars

\* a tick at gravity 0 spawned a shape next to an older one: the new shape
\* is still at y = -50
C14_Witness ==
  /\ lastOp.op = "tick"
  /\ gravity = 0
  /\ Len(shapes) = 2
  /\ shapes[2].id = nextId - 1
  /\ shapes[2].origin = "timer"
  /\ shapes[2].y = SpawnY
  /\ lastSpawn = now

RECURSIVE AreaOfFirst(_)
\* the stored areas (in hundredths) of the first n shapes of the collection
AreaOfFirst(n) == IF n = 0 THEN 0 ELSE shapes[n].area + AreaOfFirst(n - 1)

\* C15: after every tick and every reset the published count is the length
\* of the collection and the published area is the sum of the stored areas
\* of the shapes in it, rounded to the nearest integer (a half rounds up);
\* the shapes the tick culled are not in the collection and add nothing.
C15_StatsMatchSurvivors ==
  lastOp.op \in {"tick", "resize"} =>
    /\ shapesCountEl = Len(shapes)
    /\ 100 * shapesAreaEl - 50 <= AreaOfFirst(Len(shapes))
    /\ AreaOfFirst(Len(shapes)) < 100 * shapesAreaEl + 50
    /\ \A id \in Ids : destroyCalls[id] >= 1 => id \notin IdsOf(shapes)

\* a tick culled a shape and kept another: the statistics show one shape
\* with its area
C15_Witness ==
  /\ lastOp.op = "tick"
  /\ lastOp.culled >= 1
  /\ shapesCountEl = 1
  /\ shapesAreaEl > 0
  /\ Len(shapes) = 1
  /\ 100 * shapesAreaEl = shapes[1].area

\* the vertices of a ring in the opposite order
ReverseRing(points) ==
  LET n == Len(points) \div 2
  IN  [j \in 1 .. 2 * n |->
         points[2 * (n - 1 - ((j - 1) \div 2)) + ((j - 1) % 2) + 1]]

RECURSIVE CrossSum(_, _)
\* the sum over the vertices k, k + 1, ... of the ring of the cross term
\* of vertex k and its successor, the successor of the last vertex being
\* the first
CrossSum(points, k) ==
  LET n  == Len(points) \div 2
      k2 == (k + 1) % n
  IN  IF k >= n THEN 0
      ELSE (points[2 * k + 1] * points[2 * k2 + 2]
              - points[2 * k2 + 1] * points[2 * k + 2])
           + CrossSum(points, k + 1)

\* C16: for every vertex ring given as a flat list, _polygonArea is
\* non-negative, the same for the ring with its vertices in the opposite
\* order, and half the absolute value of the sum of x1*y2 - x2*y1 over
\* every vertex and its successor, the pair last -> first included.
C16_ShoelaceArea ==
  call.fn = "polygonArea" =>
    /\ call.twice >= 0
    /\ call.twice = polygonAreaTwice(ReverseRing(call.points))
    /\ call.twice = Abs(CrossSum(call.points, 0))

\* a quadrilateral whose vertex order gives a negative sum, and a positive
\* area
C16_Witness ==
  /\ call.fn = "polygonArea"
  /\ Len(call.points) = 2 * MaxVertices
  /\ ShoelaceSum(call.points, 0) < 0
  /\ call.twice > 0

\* point p (in hundredths) is at distance r (in hundredths) from the center
\* c, within the one percent of r * r that the rounded coordinates allow
AtDistance(p, c, r) ==
  LET d2 == (p[1] - c[1]) * (p[1] - c[1]) + (p[2] - c[2]) * (p[2] - c[2])
  IN  Abs(d2 - r * r) <= (r * r) \div 100

\* the points of a sequence are pairwise different
AllDifferent(ps) == Cardinality({ps[k] : k \in 1 .. Len(ps)}) = Len(ps)

\* C17: _drawPolygon(g, size, sides), sides in 3 .. 6, starts the path at
\* vertex 0 = (size, 0) and adds exactly `sides` vertices, pairwise
\* different and each at distance size from the center, the last of them
\* vertex 0 again (the ring is closed).  drawStar adds 2 * points vertices,
\* pairwise different, at distance radius (even index) and radius / 2 (odd
\* index) from (x, y), the first at (x + radius, y) where the path starts;
\* with points < 2 it draws nothing at all.
C17_VertexRings ==
  /\ call.fn = "drawPolygon" =>
       LET path == call.path
           r    == 100 * call.size
       IN  /\ path.start = <<<<r, 0>>>>
           /\ Len(path.lineTo) = call.sides
           /\ AllDifferent(path.lineTo)
           /\ path.lineTo[call.sides] = <<r, 0>>
           /\ \A k \in 1 .. Len(path.lineTo) :
                AtDistance(path.lineTo[k], <<0, 0>>, r)
  /\ call.fn = "drawStar" =>
       LET path == call.path
           c    == <<100 * call.x, 100 * call.y>>
           r    == 100 * call.radius
       IN  IF call.points < 2
           THEN path.start = <<>> /\ path.lineTo = <<>>
           ELSE /\ path.start = <<<<c[1] + r, c[2]>>>>
                /\ Len(path.lineTo) = 2 * call.points
                /\ AllDifferent(path.lineTo)
                /\ path.lineTo[1] = <<c[1] + r, c[2]>>
                /\ \A k \in 1 .. Len(path.lineTo) :
                     AtDistance(path.lineTo[k], c,
                                IF k % 2 = 1 THEN r ELSE r \div 2)

\* a hexagon of the largest size has been drawn
C17_Witness ==
  /\ call.fn = "drawPolygon"
  /\ call.sides = 6
  /\ call.size = MAX_SIZE - 1
  /\ Len(call.path.lineTo) = 6

\* C18: in every state a constructed Graphics is a child of the stage and
\* not destroyed exactly when it is in the collection; a shape that leaves
\* the collection (click, cull, reset) is destroyed in that same step, and
\* no Graphics receives destroy() more than once.
C18_RendererTracksCollection ==
  [][/\ \A id \in Ids :
          /\ (id \in stage /\ destroyCalls[id] = 0) <=> id \in IdsOf(shapes)
          /\ id \in stage => destroyCalls[id] = 0
          /\ destroyCalls[id] <= 1 /\ destroyCalls'[id] <= 1
          /\ (id \in IdsOf(shapes) /\ id \notin IdsOf(shapes')) =>
               /\ destroyCalls'[id] = 1
               /\ id \notin stage'
          /\ (id \in stage' /\ destroyCalls'[id] = 0) <=> id \in IdsOf(shapes')
     /\ Len(shapes) = Cardinality(IdsOf(shapes))]_vars

\* the tick that ran last culled the last shape: every Graphics constructed
\* has been destroyed once, the stage is empty
C18_Witness ==
  /\ lastOp.op = "tick"
  /\ lastOp.culled = 1
  /\ nextId = MaxIds + 1
  /\ shapes = <<>>
  /\ stage = {}
  /\ \A id \in Ids : destroyCalls[id] = 1

\* C19: a reset sets the spawn clock to 0, not to the current time, and
\* leaves gravity and spawnPerSecond as they are.  So a tick that follows a
\* reset at a clock reading of at least one spawn interval spawns a shape
\* when spawnPerSecond > 0, however recent the last spawn was.
C19_ResetRestartsSpawnClock ==
  [][/\ lastOp'.op = "resize" =>
          /\ lastSpawn' = 0
          /\ gravity' = gravity
          /\ spawnPerSecond' = spawnPerSecond
          /\ now' = now
     /\ (/\ lastOp.op = "resize"
         /\ lastOp'.op = "tick"
         /\ spawnPerSecond > 0
         /\ now' * spawnPerSecond >= MsPerSecond) =>
          /\ nextId' = nextId + 1
          /\ lastSpawn' = now'
          /\ IdsOf(shapes') \subseteq {nextId}
          /\ \A j \in 1 .. Len(shapes') : shapes'[j].origin = "timer"]_vars

\* the tick right after a reset spawned a second shape at rate 1, only
\* TimeStep = 500 ms after the tick before it
C19_Witness ==
  /\ lastOp.op = "tick"
  /\ lastOp.prev = "resize"
  /\ lastOp.arg = TimeStep
  /\ spawnPerSecond = 1
  /\ lastSpawn = now
  /\ now > MsPerSecond
  /\ nextId = MaxIds + 1
  /\ Len(shapes) = 1
  /\ shapes[1].origin = "timer"

\* C20: under fair ticking (every delta is positive), in a run in which
\* gravity stays >= 1 every shape that is in the collection is eventually
\* out of it: culled once its y exceeds height + 100, unless a click or a
\* reset removes it first.  At gravity 0 a tick changes no shape's y and
\* culls nothing, so a shape leaves the collection only by a click on it or
\* by a reset.
C20_ShapesFallOut ==
  /\ \A id \in Ids :
       [](gravity >= 1) =>
         ((id \in IdsOf(shapes)) ~> (id \notin IdsOf(shapes)))
  /\ [][gravity = 0 =>
          /\ lastOp'.op = "tick" =>
               /\ Len(shapes') >= Len(shapes)
               /\ \A i \in 1 .. Len(shapes) : shapes'[i] = shapes[i]
          /\ IdsOf(shapes) \ IdsOf(shapes') # {} =>
               lastOp'.op \in {"clickShape", "resize"}]_vars

\* at gravity >= 1 a tick culled the one shape of the collection, which a
\* stage click had spawned
C20_Witness ==
  /\ lastOp.op = "tick"
  /\ lastOp.culled = 1
  /\ gravity >= 1
  /\ shapes = <<>>
  /\ nextId = 2
  /\ destroyCalls[1] = 1

====
